---- MODULE Spec2Model ----
(***************************************************************************)
(* Realtime session/query protocol layer of the PaymentDataAI client:      *)
(* the useSocket hook (Session/Connection Manager) and the App component   *)
(* (Conversation Controller), with the socket.io transport and the remote  *)
(* service as a nondeterministic environment.                              *)
(***************************************************************************)
EXTENDS Integers, Sequences, FiniteSets, TLC

(* ------------------------------ bounds --------------------------------- *)
MaxSockets == 2      \* socket objects that can be alive at the same time
MaxClock == 2        \* Date.now() ranges over 1..MaxClock
MaxMessages == 2     \* length cap of the message log
MaxErrors == 6       \* cap of the reconnect-attempt counter in the model
MaxTimers == 2       \* timeout handles that can be armed at the same time
MaxTitleLen == 4     \* length of the strings given to convertSnakeCaseToTitle
MaxLines == 3        \* lines of a markdown table input
MaxCells == 3        \* pipe-separated segments of a markdown line
MaxDepth == 2        \* nesting of the elements of an HTML fragment

(* ------------------------- program constants --------------------------- *)
maxReconnectAttempts == 5

ClientDisconnect == "io client disconnect"
ServerDisconnect == "io server disconnect"
TransportClose == "transport close"
Reasons == {ClientDisconnect, ServerDisconnect, TransportClose}

TimeoutNotice == "Request timed out. Please try again."
SendFailedNotice == "Failed to send message. Please try again."
DefaultQueryError == "An error occurred while processing your request."

TimerIds == 1..MaxTimers
Envelopes == {"envSuccess", "envFailure"}
ErrorTexts == {"", "boom"}
ExampleTexts == {<<"q">>}

NoSocket == "null"
LiveStates == {"trying", "open"}
Which == {"held", "orphan"}
NoTimer == 0
NoSession == <<0, "">>

(* values typed into the textarea *)
Texts == {<<>>, <<" ">>, <<" ", "q", " ">>}

(* values of Math.random().toString(36).substr(2, 9) *)
RandomSuffixes == {"r1"}

(* String.prototype.trim on a sequence of characters *)
Whitespace == {" ", "\n"}

RECURSIVE TrimLeft(_)
TrimLeft(s) ==
  IF s = <<>> THEN <<>>
  ELSE IF Head(s) \in Whitespace THEN TrimLeft(Tail(s)) ELSE s

RECURSIVE TrimRight(_)
TrimRight(s) ==
  IF s = <<>> THEN <<>>
  ELSE IF s[Len(s)] \in Whitespace
       THEN TrimRight(SubSeq(s, 1, Len(s) - 1)) ELSE s

trim(s) == TrimRight(TrimLeft(s))

(* ------------------------------- state --------------------------------- *)
VARIABLES
  socket,             \* useSocket state: NoSocket, or the held socket object,
                      \* given by its transport state "trying", "open", "closed"
  orphans,            \* socket objects that connect() replaced while they were
                      \* alive: how many are "trying", how many are "open"
  isConnected,        \* useSocket state
  connectionStatus,   \* useSocket state (ConnectionState)
  currentSessionId,   \* useSocket state: held session id or NoSession
  reconnectAttempts,  \* useSocket ref
  messages,           \* App state: the message log
  isLoading,          \* App state
  loadingTimeoutRef,  \* App ref: handle of the safety timer or NoTimer
  timers,             \* armed setTimeout handles
  now,                \* Date.now()
  emitted,            \* outbound events emitted by the last step
  last,               \* the last step: operation, socket, reason, outcome,
                      \* and the text or payload it was given
  answered,           \* a query_response or query_error was handled since
                      \* the last message that handleSendMessage sent
  render,             \* the last call of a display function: its name, its
                      \* argument and its result
  mounted             \* the component that owns the hook is mounted

vars == <<socket, orphans, isConnected, connectionStatus, currentSessionId,
          reconnectAttempts, messages, isLoading, loadingTimeoutRef, timers,
          now, emitted, last, answered, render, mounted>>

hookVars == <<socket, isConnected, connectionStatus, currentSessionId,
              reconnectAttempts>>
appVars == <<messages, isLoading, loadingTimeoutRef, timers, answered>>

Step(op, s, reason, outcome) ==
  [op |-> op, sock |-> s, reason |-> reason, outcome |-> outcome, text |-> <<>>]

StepWith(op, s, text) == [Step(op, s, "", "") EXCEPT !.text = text]

Emit(s, type, query, sid) ==
  [sock |-> s, type |-> type, query |-> query, sessionId |-> sid]

Rendered(fn, arg, out) == [fn |-> fn, arg |-> arg, out |-> out]

Init ==
  /\ socket = NoSocket
  /\ orphans = [st \in LiveStates |-> 0]
  /\ isConnected = FALSE
  /\ connectionStatus = "disconnected"
  /\ currentSessionId = NoSession
  /\ reconnectAttempts = 0
  /\ messages = <<>>
  /\ isLoading = FALSE
  /\ loadingTimeoutRef = NoTimer
  /\ timers = {}
  /\ now = 1
  /\ emitted = <<>>
  /\ last = Step("init", "", "", "")
  /\ answered = FALSE
  /\ render = Rendered("", <<>>, <<>>)
  /\ mounted = TRUE

(* Date.now() advances *)
Tick ==
  /\ now < MaxClock
  /\ now' = now + 1
  /\ emitted' = <<>>
  /\ UNCHANGED <<render, mounted>>
  /\ last' = Step("tick", "", "", "")
  /\ UNCHANGED <<orphans, hookVars, appVars>>

(* generateSessionId: session_<Date.now()>_<random> *)
generateSessionId(rnd) == <<now, rnd>>

(* ------------------- Session/Connection Manager ------------------------ *)

(* socket objects that can still deliver events *)
LiveCount ==
  (IF socket \in LiveStates THEN 1 ELSE 0) + orphans["trying"] + orphans["open"]

(* the socket object w ("held", or one of the orphans) is in state st *)
Has(w, st) == IF w = "held" THEN socket = st ELSE orphans[st] > 0

(* the socket object w goes from state from to state to; a closed orphan
   is forgotten *)
Move(w, from, to) ==
  IF w = "held"
  THEN /\ socket' = to
       /\ orphans' = orphans
  ELSE /\ socket' = socket
       /\ orphans' = [st \in LiveStates |->
                        orphans[st] - (IF st = from THEN 1 ELSE 0)
                                    + (IF st = to THEN 1 ELSE 0)]

(* connect(): io(serverUrl, ...) makes a new socket object and setSocket
   holds it; the socket object held before is neither closed nor unsubscribed *)
connect ==
  /\ mounted
  /\ LiveCount < MaxSockets
  /\ connectionStatus' = "connecting"
  /\ orphans' = IF socket \in LiveStates
                THEN [orphans EXCEPT ![socket] = @ + 1] ELSE orphans
  /\ socket' = "trying"
  /\ emitted' = <<>>
  /\ UNCHANGED <<render, mounted>>
  /\ last' = Step("connect()", "held", "", "")
  /\ UNCHANGED <<isConnected, currentSessionId, reconnectAttempts, appVars, now>>

disconnect ==
  /\ mounted
  /\ IF socket # NoSocket
     THEN /\ socket' = NoSocket
          /\ isConnected' = FALSE
          /\ connectionStatus' = "disconnected"
          /\ currentSessionId' = NoSession
          /\ last' = Step("disconnect()", "held",
                          IF socket = "open" THEN ClientDisconnect ELSE "", "")
     ELSE /\ UNCHANGED <<socket, isConnected, connectionStatus, currentSessionId>>
          /\ last' = Step("disconnect()", "", "", "")
  /\ emitted' = <<>>
  /\ UNCHANGED <<orphans, reconnectAttempts, appVars, now, render, mounted>>

createNewSession(rnd) ==
  IF socket # NoSocket /\ isConnected
  THEN /\ currentSessionId' = generateSessionId(rnd)
       /\ emitted' = <<Emit("held", "create_session", <<>>, generateSessionId(rnd))>>
  ELSE /\ currentSessionId' = currentSessionId
       /\ emitted' = <<>>

(* outcome of the promise returned by sendQuery *)
sendQueryOutcome(query) ==
  IF socket = NoSocket \/ ~isConnected THEN "NotConnected"
  ELSE IF trim(query) = <<>> THEN "EmptyQuery"
  ELSE "resolved"

sendQueryEmits(query) ==
  IF sendQueryOutcome(query) = "resolved"
  THEN <<Emit("held", "user-query", trim(query), currentSessionId)>>
  ELSE <<>>

(* a consumer of the hook calls createNewSession() *)
CallCreateNewSession ==
  /\ mounted
  /\ \E rnd \in RandomSuffixes : createNewSession(rnd)
  /\ UNCHANGED <<render, mounted>>
  /\ last' = Step("createNewSession()", "held", "", "")
  /\ UNCHANGED <<socket, orphans, isConnected, connectionStatus,
                 reconnectAttempts, appVars, now>>

(* a consumer of the hook calls sendQuery(query) *)
CallSendQuery ==
  \E query \in Texts :
    /\ mounted
    /\ emitted' = sendQueryEmits(query)
    /\ UNCHANGED <<render, mounted>>
    /\ last' = Step("sendQuery()", "held", "", sendQueryOutcome(query))
    /\ UNCHANGED <<orphans, hookVars, appVars, now>>

(* ping(): emits on the held socket *)
ping ==
  IF socket # NoSocket /\ isConnected
  THEN <<Emit("held", "ping", <<>>, NoSession)>>
  ELSE <<>>

(* the heartbeat effect keeps an interval only while isConnected; its
   callback calls ping() when a socket is held and isConnected *)
Heartbeat ==
  /\ mounted
  /\ isConnected
  /\ emitted' = IF socket # NoSocket /\ isConnected THEN ping ELSE <<>>
  /\ UNCHANGED <<render, mounted>>
  /\ last' = Step("heartbeat", "held", "", "")
  /\ UNCHANGED <<orphans, hookVars, appVars, now>>

(* ---- transport lifecycle handlers registered by connect() on socket s ---- *)

(* variant: the emitted create_session carries the previously held id *)
onConnect_StaleSession(s, rnd) ==
  /\ isConnected' = TRUE
  /\ connectionStatus' = "connected"
  /\ reconnectAttempts' = 0
  /\ currentSessionId' = generateSessionId(rnd)
  /\ emitted' = <<Emit(s, "create_session", <<>>, currentSessionId)>>

onConnect(s, rnd) ==
  /\ isConnected' = TRUE
  /\ connectionStatus' = "connected"
  /\ reconnectAttempts' = 0
  /\ currentSessionId' = generateSessionId(rnd)
  /\ emitted' = <<Emit(s, "create_session", <<>>, generateSessionId(rnd))>>

(* variant: the socket is not disconnected when the cap is reached *)
onConnectError_NoTeardown(s) ==
  /\ isConnected' = FALSE
  /\ reconnectAttempts' = reconnectAttempts + 1
  /\ connectionStatus' = IF reconnectAttempts + 1 >= maxReconnectAttempts
                         THEN "failed" ELSE "error"
  /\ UNCHANGED <<socket, orphans>>

onConnectError(s) ==
  /\ isConnected' = FALSE
  /\ reconnectAttempts' = reconnectAttempts + 1
  /\ IF reconnectAttempts + 1 >= maxReconnectAttempts
     THEN /\ connectionStatus' = "failed"
          /\ Move(s, "trying", "closed")
     ELSE /\ connectionStatus' = "error"
          /\ UNCHANGED <<socket, orphans>>

(* variant: the reason is not looked at *)
onDisconnect_NoBranch(reason) ==
  /\ isConnected' = FALSE
  /\ connectionStatus' = "disconnected"

onDisconnect(reason) ==
  /\ isConnected' = FALSE
  /\ connectionStatus' = IF reason = ClientDisconnect
                         THEN "disconnected" ELSE "reconnecting"

(* variant: the attempt counter is kept *)
onReconnect_NoReset ==
  /\ isConnected' = TRUE
  /\ connectionStatus' = "connected"
  /\ reconnectAttempts' = reconnectAttempts

onReconnect ==
  /\ isConnected' = TRUE
  /\ connectionStatus' = "connected"
  /\ reconnectAttempts' = 0

onReconnectFailed ==
  connectionStatus' = "failed"

(* variant: the held id is overwritten also when the event carries none *)
onConnectionEstablished_AlwaysAdopts(session_id) ==
  currentSessionId' = session_id

onConnectionEstablished(session_id) ==
  currentSessionId' = IF session_id # NoSession THEN session_id
                      ELSE currentSessionId

(* ----------------- the transport delivers a lifecycle event ------------ *)
(* A socket object is "trying" while socket.io attempts or re-attempts the
   connection, "open" while connected, "closed" once the client disconnected
   it or socket.io gave up. *)

EvConnect ==
  \E s \in Which, rnd \in RandomSuffixes :
    /\ Has(s, "trying")
    /\ Move(s, "trying", "open")
    /\ onConnect(s, rnd)
    /\ UNCHANGED <<render, mounted>>
    /\ last' = Step("connect", s, "", "")
    /\ UNCHANGED <<appVars, now>>

EvConnectError ==
  \E s \in Which :
    /\ Has(s, "trying")
    /\ reconnectAttempts < MaxErrors
    /\ onConnectError(s)
    /\ emitted' = <<>>
    /\ UNCHANGED <<render, mounted>>
    /\ last' = Step("connect_error", s, "", "")
    /\ UNCHANGED <<currentSessionId, appVars, now>>

EvDisconnect ==
  \E s \in Which, reason \in Reasons \ {ClientDisconnect} :
    /\ Has(s, "open")
    /\ Move(s, "open", IF reason = ServerDisconnect THEN "closed" ELSE "trying")
    /\ onDisconnect(reason)
    /\ emitted' = <<>>
    /\ UNCHANGED <<render, mounted>>
    /\ last' = Step("disconnect", s, reason, "")
    /\ UNCHANGED <<currentSessionId, reconnectAttempts, appVars, now>>

EvReconnect ==
  \E s \in Which :
    /\ Has(s, "trying")
    /\ Move(s, "trying", "open")
    /\ onReconnect
    /\ emitted' = <<>>
    /\ UNCHANGED <<render, mounted>>
    /\ last' = Step("reconnect", s, "", "")
    /\ UNCHANGED <<currentSessionId, appVars, now>>

EvReconnectFailed ==
  \E s \in Which :
    /\ Has(s, "trying")
    /\ Move(s, "trying", "closed")
    /\ onReconnectFailed
    /\ emitted' = <<>>
    /\ UNCHANGED <<render, mounted>>
    /\ last' = Step("reconnect_failed", s, "", "")
    /\ UNCHANGED <<isConnected, currentSessionId, reconnectAttempts,
                   appVars, now>>

(* The component unmounts: the cleanup of the auto-connect effect calls the
   disconnect of the first render, whose closure holds socket = null, so its
   `if (socket)` is false and nothing is torn down; the cleanup of the
   heartbeat effect clears the interval and App's cleanup clears the safety
   timeout. The socket objects keep their handlers. *)
Unmount ==
  /\ mounted
  /\ mounted' = FALSE
  /\ timers' = timers \ {loadingTimeoutRef}
  /\ emitted' = <<>>
  /\ last' = Step("unmount", "", "", "")
  /\ UNCHANGED <<orphans, hookVars, messages, isLoading, loadingTimeoutRef,
                 answered, now, render>>

ServerSessions == {NoSession, <<0, "server">>}

EvConnectionEstablished ==
  \E s \in Which, session_id \in ServerSessions :
    /\ Has(s, "open")
    /\ onConnectionEstablished(session_id)
    /\ emitted' = <<>>
    /\ UNCHANGED <<render, mounted>>
    /\ last' = Step("connection_established", s, "", "")
    /\ UNCHANGED <<socket, orphans, isConnected, connectionStatus,
                   reconnectAttempts, appVars, now>>

(* ----------------------- Conversation Controller ----------------------- *)

Message(id, type, content) == [id |-> id, type |-> type, content |-> content]

(* setTimeout hands out a handle that is not armed *)
FreeTimers == TimerIds \ timers
NewTimer == CHOOSE h \in FreeTimers : \A g \in FreeTimers : h <= g

(* variant: the pending timeout is not cleared *)
clearLoadingTimeout_Skipped == timers

(* clearTimeout(loadingTimeoutRef.current) guarded by the ref being set *)
clearLoadingTimeout == timers \ {loadingTimeoutRef}

(* variant: the catch of the rejected sendQuery leaves the timeout armed *)
handleSendMessage_CatchKeepsTimer(message) ==
  IF trim(message) = <<>> \/ ~isConnected
  THEN /\ UNCHANGED appVars
       /\ emitted' = <<>>
  ELSE /\ FreeTimers # {}
       /\ emitted' = sendQueryEmits(message)
       /\ IF sendQueryOutcome(message) = "resolved"
          THEN /\ Len(messages) < MaxMessages
               /\ isLoading' = TRUE
               /\ messages' = Append(messages, Message(now, "user", message))
               /\ loadingTimeoutRef' = NewTimer
               /\ timers' = clearLoadingTimeout \cup {NewTimer}
               /\ answered' = FALSE
          ELSE /\ Len(messages) + 1 < MaxMessages
               /\ isLoading' = FALSE
               /\ messages' = messages \o
                    << Message(now, "user", message),
                       Message(now + 1, "error", <<SendFailedNotice>>) >>
               /\ loadingTimeoutRef' = NewTimer
               /\ timers' = clearLoadingTimeout \cup {NewTimer}
               /\ answered' = FALSE

(* App.handleSendMessage(message), the awaited sendQuery included *)
handleSendMessage(message) ==
  IF trim(message) = <<>> \/ ~isConnected
  THEN /\ UNCHANGED appVars
       /\ emitted' = <<>>
  ELSE /\ FreeTimers # {}
       /\ emitted' = sendQueryEmits(message)
       /\ IF sendQueryOutcome(message) = "resolved"
          THEN /\ Len(messages) < MaxMessages
               /\ isLoading' = TRUE
               /\ messages' = Append(messages, Message(now, "user", message))
               /\ loadingTimeoutRef' = NewTimer
               /\ timers' = clearLoadingTimeout \cup {NewTimer}
               /\ answered' = FALSE
          ELSE /\ Len(messages) + 1 < MaxMessages
               /\ isLoading' = FALSE
               /\ messages' = messages \o
                    << Message(now, "user", message),
                       Message(now + 1, "error", <<SendFailedNotice>>) >>
               /\ loadingTimeoutRef' = NoTimer
               /\ timers' = clearLoadingTimeout
               /\ answered' = FALSE

(* InputSection.handleSubmit with the typed value *)
handleSubmit(value) ==
  IF trim(value) # <<>> /\ isConnected /\ ~isLoading
  THEN handleSendMessage(trim(value))
  ELSE /\ UNCHANGED appVars
       /\ emitted' = <<>>

Submit ==
  \E value \in Texts :
    /\ mounted
    /\ handleSubmit(value)
    /\ UNCHANGED <<render, mounted>>
    /\ last' = StepWith("submit", "held", value)
    /\ UNCHANGED <<orphans, hookVars, now>>

(* ExamplesSection is rendered only while the message log is empty *)
showWelcome == Len(messages) = 0

handleExampleClick(exampleQuery) == handleSendMessage(exampleQuery)

ExampleClick ==
  \E example \in ExampleTexts :
    /\ mounted
    /\ showWelcome
    /\ handleExampleClick(example)
    /\ UNCHANGED <<render, mounted>>
    /\ last' = StepWith("example", "held", example)
    /\ UNCHANGED <<orphans, hookVars, now>>

(* App.handleNewSession *)
handleNewSession(rnd) ==
  /\ createNewSession(rnd)
  /\ messages' = <<>>
  /\ UNCHANGED <<isLoading, loadingTimeoutRef, timers, answered>>

(* InputSection.handleNewSessionClick *)
NewSessionClick ==
  /\ mounted
  /\ IF isConnected
     THEN \E rnd \in RandomSuffixes : handleNewSession(rnd)
     ELSE /\ UNCHANGED <<appVars, currentSessionId>>
          /\ emitted' = <<>>
  /\ UNCHANGED <<render, mounted>>
  /\ last' = Step("newSession", "held", "", "")
  /\ UNCHANGED <<socket, orphans, isConnected, connectionStatus,
                 reconnectAttempts, now>>

(* variant: the callback does not clear the loading flag *)
onLoadingTimeout_KeepsLoading(h) ==
  /\ isLoading' = isLoading
  /\ loadingTimeoutRef' = NoTimer
  /\ timers' = timers \ {h}
  /\ messages' = Append(messages, Message(now + 2, "error", <<TimeoutNotice>>))
  /\ answered' = answered

(* the safety timeout callback armed by handleSendMessage *)
onLoadingTimeout(h) ==
  /\ isLoading' = FALSE
  /\ loadingTimeoutRef' = NoTimer
  /\ timers' = timers \ {h}
  /\ messages' = Append(messages, Message(now + 2, "error", <<TimeoutNotice>>))
  /\ answered' = answered

(* variant: a cleared timeout still fires *)
TimerFire_Stale ==
  \E h \in TimerIds :
    /\ Len(messages) < MaxMessages
    /\ onLoadingTimeout(h)
    /\ emitted' = <<>>
    /\ UNCHANGED <<render, mounted>>
    /\ last' = Step("timeout", "", "", "")
    /\ UNCHANGED <<orphans, hookVars, now>>

TimerFire ==
  \E h \in timers :
    /\ Len(messages) < MaxMessages
    /\ onLoadingTimeout(h)
    /\ emitted' = <<>>
    /\ UNCHANGED <<render, mounted>>
    /\ last' = Step("timeout", "", "", "")
    /\ UNCHANGED <<orphans, hookVars, now>>

(* variant: the message content is not the received payload *)
handleQueryResponse_Rewrapped(data) ==
  /\ timers' = clearLoadingTimeout
  /\ loadingTimeoutRef' = NoTimer
  /\ isLoading' = FALSE
  /\ messages' = Append(messages, Message(now, "assistant", <<"envSuccess">>))
  /\ answered' = TRUE

handleQueryResponse(data) ==
  /\ timers' = clearLoadingTimeout
  /\ loadingTimeoutRef' = NoTimer
  /\ isLoading' = FALSE
  /\ messages' = Append(messages, Message(now, "assistant", <<data>>))
  /\ answered' = TRUE

(* variant: the error text of the payload is ignored *)
handleQueryError_AlwaysDefault(error) ==
  /\ timers' = clearLoadingTimeout
  /\ loadingTimeoutRef' = NoTimer
  /\ isLoading' = FALSE
  /\ messages' = Append(messages, Message(now, "error", <<DefaultQueryError>>))
  /\ answered' = TRUE

handleQueryError(error) ==
  /\ timers' = clearLoadingTimeout
  /\ loadingTimeoutRef' = NoTimer
  /\ isLoading' = FALSE
  /\ messages' = Append(messages,
       Message(now, "error", <<IF error # "" THEN error ELSE DefaultQueryError>>))
  /\ answered' = TRUE

(* variant: a query_response that finds no query loading is dropped *)
EvQueryResponse_DiscardLate ==
  \E data \in Envelopes :
    /\ socket = "open"
    /\ Len(messages) < MaxMessages
    /\ IF isLoading THEN handleQueryResponse(data) ELSE UNCHANGED appVars
    /\ emitted' = <<>>
    /\ UNCHANGED <<render, mounted>>
    /\ last' = StepWith("query_response", "held", <<data>>)
    /\ UNCHANGED <<orphans, hookVars, now>>

(* App subscribes to query_response / query_error on the held socket only *)
EvQueryResponse ==
  \E data \in Envelopes :
    /\ socket = "open"
    /\ Len(messages) < MaxMessages
    /\ handleQueryResponse(data)
    /\ emitted' = <<>>
    /\ UNCHANGED <<render, mounted>>
    /\ last' = StepWith("query_response", "held", <<data>>)
    /\ UNCHANGED <<orphans, hookVars, now>>

EvQueryError ==
  \E error \in ErrorTexts :
    /\ socket = "open"
    /\ Len(messages) < MaxMessages
    /\ handleQueryError(error)
    /\ emitted' = <<>>
    /\ UNCHANGED <<render, mounted>>
    /\ last' = StepWith("query_error", "held", <<error>>)
    /\ UNCHANGED <<orphans, hookVars, now>>

(* --------------------------- display functions ------------------------- *)
(* Strings are sequences of one-character strings. *)

protocolVars == <<orphans, hookVars, appVars, now, emitted, last, mounted>>

(* all strings over the alphabet of length at most n *)
StringsOver(alphabet, n) == UNION {[1..k -> alphabet] : k \in 0..n}

ToUpperCase(c) == CASE c = "a" -> "A" [] c = "b" -> "B" [] OTHER -> c
ToLowerCase(c) == CASE c = "A" -> "a" [] c = "B" -> "b" [] OTHER -> c

Includes(s, c) == \E i \in 1..Len(s) : s[i] = c

(* variant: the rest of the word keeps its case *)
capitalizeWord_KeepsRest(word) ==
  IF word = <<>> THEN <<>>
  ELSE <<ToUpperCase(Head(word))>> \o Tail(word)

(* word.charAt(0).toUpperCase() + word.slice(1).toLowerCase() *)
capitalizeWord(word) ==
  IF word = <<>> THEN <<>>
  ELSE <<ToUpperCase(Head(word))>>
       \o [i \in 1..(Len(word) - 1) |-> ToLowerCase(word[i + 1])]

(* text.replace(/^_+/, '') *)
RECURSIVE StripLeadingUnderscores(_)
StripLeadingUnderscores(s) ==
  IF s # <<>> /\ Head(s) = "_" THEN StripLeadingUnderscores(Tail(s)) ELSE s

(* text.replace(/_+$/, '') *)
RECURSIVE StripTrailingUnderscores(_)
StripTrailingUnderscores(s) ==
  IF s # <<>> /\ s[Len(s)] = "_"
  THEN StripTrailingUnderscores(SubSeq(s, 1, Len(s) - 1)) ELSE s

(* text.replace(/_+/g, '_') *)
RECURSIVE CollapseUnderscores(_)
CollapseUnderscores(s) ==
  IF Len(s) < 2 THEN s
  ELSE IF s[1] = "_" /\ s[2] = "_" THEN CollapseUnderscores(Tail(s))
  ELSE <<s[1]>> \o CollapseUnderscores(Tail(s))

(* String.prototype.split(sep): the pieces between the separators, empty
   pieces included; a string without the separator is its only piece *)
RECURSIVE Split(_, _)
Split(s, sep) ==
  IF ~Includes(s, sep) THEN <<s>>
  ELSE LET i == CHOOSE k \in 1..Len(s) :
                  s[k] = sep /\ \A j \in 1..(k - 1) : s[j] # sep
       IN <<SubSeq(s, 1, i - 1)>> \o Split(SubSeq(s, i + 1, Len(s)), sep)

(* Array.prototype.join(sep) *)
RECURSIVE Join(_, _)
Join(parts, sep) ==
  IF parts = <<>> THEN <<>>
  ELSE IF Len(parts) = 1 THEN parts[1]
  ELSE parts[1] \o <<sep>> \o Join(Tail(parts), sep)

NonEmpty(w) == w # <<>>

(* variant: the words are joined by the separator they were split on *)
convertSnakeCaseToTitle_JoinsUnderscore(text) ==
  IF text = <<>> THEN text
  ELSE IF ~Includes(text, "_") THEN text
  ELSE LET cleaned == CollapseUnderscores(
                        StripTrailingUnderscores(StripLeadingUnderscores(text)))
           words == SelectSeq(Split(cleaned, "_"), NonEmpty)
       IN Join([i \in 1..Len(words) |-> capitalizeWord(words[i])], "_")

convertSnakeCaseToTitle(text) ==
  IF text = <<>> THEN text
  ELSE IF ~Includes(text, "_") THEN text
  ELSE LET cleaned == CollapseUnderscores(
                        StripTrailingUnderscores(StripLeadingUnderscores(text)))
           words == SelectSeq(Split(cleaned, "_"), NonEmpty)
       IN Join([i \in 1..Len(words) |-> capitalizeWord(words[i])], " ")

TitleChars == {"_", "a", "B"}
TitleInputs == StringsOver(TitleChars, MaxTitleLen)

(* The display functions are pure: a behaviour applies one of them to one
   input of its domain. *)
RenderTitle ==
  /\ render.fn = ""
  /\ \E text \in TitleInputs :
       render' = Rendered("convertSnakeCaseToTitle", text,
                          convertSnakeCaseToTitle(text))
  /\ UNCHANGED protocolVars

(* div.textContent = text; div.innerHTML: the text with its markup
   characters replaced by character references *)
EscapeChar(c) ==
  CASE c = "&" -> <<"&", "a", "m", "p", ";">>
    [] c = "<" -> <<"&", "l", "t", ";">>
    [] c = ">" -> <<"&", "g", "t", ";">>
    [] OTHER -> <<c>>

RECURSIVE escapeHtml(_)
escapeHtml(text) ==
  IF text = <<>> THEN <<>>
  ELSE EscapeChar(Head(text)) \o escapeHtml(Tail(text))

(* line.split('|').map(c => c.trim()).filter(c => c) *)
PipeSegments(line) ==
  LET pieces == Split(line, "|")
  IN SelectSeq([i \in 1..Len(pieces) |-> trim(pieces[i])], NonEmpty)

(* the <p> of line 45, the <pre> of lines 51, 65 and 101, the <table> of
   lines 68-95; the fixed markup and class names are left out *)
NoTableData == [kind |-> "nodata"]
RawFallback(markdown) == [kind |-> "pre", text |-> escapeHtml(markdown)]

(* variant: a row shows every cell of its line *)
TableRow_AllCells(headers, cells, index) ==
  [class |-> IF index % 2 = 0 THEN "bg-white" ELSE "bg-gray-50",
   cells |-> [i \in 1..Len(cells) |-> escapeHtml(cells[i])]]

(* one <tr>: a <td> per header, cells[i] || '' *)
TableRow(headers, cells, index) ==
  [class |-> IF index % 2 = 0 THEN "bg-white" ELSE "bg-gray-50",
   cells |-> [i \in 1..Len(headers) |->
                escapeHtml(IF i <= Len(cells) THEN cells[i] ELSE <<>>)]]

(* variant: a line without cells is shown as a row of empty cells *)
RECURSIVE TableRows_KeepsEmpty(_, _, _)
TableRows_KeepsEmpty(headers, dataLines, index) ==
  IF dataLines = <<>> THEN <<>>
  ELSE <<TableRow(headers, PipeSegments(Head(dataLines)), index)>>
       \o TableRows_KeepsEmpty(headers, Tail(dataLines), index + 1)

(* dataLines.forEach((line, index) => ...) from the given index on *)
RECURSIVE TableRows(_, _, _)
TableRows(headers, dataLines, index) ==
  IF dataLines = <<>> THEN <<>>
  ELSE LET line == Head(dataLines)
           cells == PipeSegments(line)
           row == IF trim(line) # <<>> /\ Len(cells) > 0
                  THEN <<TableRow(headers, cells, index)>> ELSE <<>>
       IN row \o TableRows(headers, Tail(dataLines), index + 1)

(* variant: the empty string takes the <pre> fallback *)
convertMarkdownToTable_EmptyAsRaw(markdown) ==
  LET lines == Split(trim(markdown), "\n")
      segments == PipeSegments(lines[1])
      headers == [i \in 1..Len(segments) |->
                    convertSnakeCaseToTitle(segments[i])]
      dataLines == SubSeq(lines, 3, Len(lines))
  IN IF Len(lines) < 2 THEN RawFallback(markdown)
     ELSE IF Len(headers) = 0 THEN RawFallback(markdown)
     ELSE [kind |-> "table",
           headers |-> [i \in 1..Len(headers) |-> escapeHtml(headers[i])],
           rows |-> TableRows(headers, dataLines, 0)]

convertMarkdownToTable(markdown) ==
  IF markdown = <<>> THEN NoTableData
  ELSE LET lines == Split(trim(markdown), "\n")
           segments == PipeSegments(lines[1])
           headers == [i \in 1..Len(segments) |->
                         convertSnakeCaseToTitle(segments[i])]
           dataLines == SubSeq(lines, 3, Len(lines))
       IN IF Len(lines) < 2 THEN RawFallback(markdown)
          ELSE IF Len(headers) = 0 THEN RawFallback(markdown)
          ELSE [kind |-> "table",
                headers |-> [i \in 1..Len(headers) |-> escapeHtml(headers[i])],
                rows |-> TableRows(headers, dataLines, 0)]

(* Markdown inputs: up to MaxLines lines joined by line feeds. The header
   line and the data lines have up to MaxCells pipe-separated segments; the
   segment at a position is blank or the text of that position, so that the
   cells of a line can be told apart. The second line is a row of dashes or
   a line that reads like data. *)
BlankSegment == <<" ">>
SegmentText(i) ==
  CASE i = 1 -> <<" ", "a", "_", "b">>
    [] i = 2 -> <<"<", " ">>
    [] i = 3 -> <<"c">>
    [] OTHER -> <<"d">>

TableLines ==
  UNION {{Join(segs, "|") :
            segs \in {f \in [1..n -> {BlankSegment} \cup
                                       {SegmentText(i) : i \in 1..n}] :
                        \A i \in 1..n : f[i] \in {BlankSegment, SegmentText(i)}}} :
         n \in 0..MaxCells}

SeparatorLines == {<<"-", "|", "-">>, SegmentText(1)}

RenderTable ==
  /\ render.fn = ""
  /\ \E n \in 0..MaxLines, header \in TableLines, separator \in SeparatorLines :
       \E dataLines \in [1..(n - 2) -> TableLines] :
         LET markdown == Join(SubSeq(<<header, separator>> \o dataLines, 1, n),
                              "\n")
         IN render' = Rendered("convertMarkdownToTable", markdown,
                               convertMarkdownToTable(markdown))
  /\ UNCHANGED protocolVars

(* sanitizeHtml works on the element tree that tempDiv.innerHTML = html
   builds and returns its serialisation: a fragment is the sequence of the
   top elements, an element is a tag, a set of attributes and the sequence
   of its child elements. The empty fragment is the empty string. *)
Element(tag, attrs, children) ==
  [tag |-> tag, attrs |-> attrs, children |-> children]
Attr(name, value) == [name |-> name, value |-> value]

dangerousElements == {"script", "iframe", "object", "embed", "link", "style"}
dangerousAttributes ==
  {"onload", "onerror", "onclick", "onmouseover", "onfocus", "onblur"}

JavascriptPrefix == <<"j", "a", "v", "a", "s", "c", "r", "i", "p", "t", ":">>

(* String.prototype.startsWith *)
startsWith(s, prefix) ==
  Len(s) >= Len(prefix) /\ SubSeq(s, 1, Len(prefix)) = prefix

(* querySelectorAll(tag).forEach(el => el.remove()) for every listed tag *)
RECURSIVE RemoveDangerousElements(_)
RemoveDangerousElements(nodes) ==
  IF nodes = <<>> THEN <<>>
  ELSE LET el == Head(nodes)
       IN (IF el.tag \in dangerousElements THEN <<>>
           ELSE <<Element(el.tag, el.attrs,
                          RemoveDangerousElements(el.children))>>)
          \o RemoveDangerousElements(Tail(nodes))

(* variant: the src test is left out *)
RemainingAttributes_HrefOnly(attrs) ==
  {a \in attrs :
     /\ a.name \notin dangerousAttributes
     /\ ~(a.name = "href" /\ startsWith(a.value, JavascriptPrefix))}

(* the attributes of one element after lines 146-159 *)
RemainingAttributes(attrs) ==
  {a \in attrs :
     /\ a.name \notin dangerousAttributes
     /\ ~(a.name = "href" /\ startsWith(a.value, JavascriptPrefix))
     /\ ~(a.name = "src" /\ startsWith(a.value, JavascriptPrefix))}

(* querySelectorAll('*').forEach(...) *)
RECURSIVE RemoveDangerousAttributes(_)
RemoveDangerousAttributes(nodes) ==
  [i \in 1..Len(nodes) |->
     Element(nodes[i].tag, RemainingAttributes(nodes[i].attrs),
             RemoveDangerousAttributes(nodes[i].children))]

sanitizeHtml(html) ==
  IF html = <<>> THEN <<>>
  ELSE RemoveDangerousAttributes(RemoveDangerousElements(html))

(* Fragments: an element nested up to MaxDepth deep. Every listed tag and
   one other tag occur; an element has no attribute, all the listed
   handlers, javascript: links, or attributes that only resemble these. *)
Tags == dangerousElements \cup {"p"}

AttrSets ==
  { {},
    {Attr(n, <<"x">>) : n \in dangerousAttributes} \cup {Attr("class", <<"c">>)},
    {Attr("href", JavascriptPrefix \o <<"x">>),
     Attr("src", JavascriptPrefix), Attr("class", <<"c">>)},
    {Attr("href", <<" ">> \o JavascriptPrefix),
     Attr("src", <<"J">> \o Tail(JavascriptPrefix)),
     Attr("onmouseenter", <<"x">>)} }

(* a following sibling of a nested element *)
Sibling ==
  Element("p", {Attr("onclick", <<"x">>), Attr("href", <<"/">>)}, <<>>)

RECURSIVE Elements(_)
Elements(depth) ==
  IF depth = 0 THEN {}
  ELSE LET inner == Elements(depth - 1)
       IN {Element(tag, attrs, children) :
             tag \in Tags, attrs \in AttrSets,
             children \in {<<>>} \cup {<<c>> : c \in inner}
                                \cup {<<c, Sibling>> : c \in inner}}

RenderSanitized ==
  /\ render.fn = ""
  /\ \E html \in {<<>>} \cup {<<el>> : el \in Elements(MaxDepth)} :
       render' = Rendered("sanitizeHtml", html, sanitizeHtml(html))
  /\ UNCHANGED protocolVars

(* parseInsights: [] for a non-array, else the elements as {id, text} with
   the position as id and non-strings converted by String(...) *)
InsightString(v) == [type |-> "string", value |-> v]
InsightNumber(n) == [type |-> "number", value |-> n]
(* an absent key_insights field: not an array, no length *)
NotAnArray == [isArray |-> FALSE, items |-> <<>>]
InsightArray(items) == [isArray |-> TRUE, items |-> items]

(* String(n) for a one-digit number *)
StringOfDigit(n) ==
  <<CASE n = 0 -> "0" [] n = 1 -> "1" [] n = 2 -> "2" [] n = 3 -> "3"
      [] n = 4 -> "4" [] n = 5 -> "5" [] n = 6 -> "6" [] n = 7 -> "7"
      [] n = 8 -> "8" [] OTHER -> "9">>

parseInsights(insights) ==
  IF ~insights.isArray THEN <<>>
  ELSE [i \in 1..Len(insights.items) |->
          [id |-> i - 1,
           text |-> IF insights.items[i].type = "string"
                    THEN insights.items[i].value
                    ELSE StringOfDigit(insights.items[i].value)]]

(* the markdown_data value that stands for "no table" *)
NoDataTablePlaceholder ==
  <<"N", "o", " ", "d", "a", "t", "a", " ", "t", "a", "b", "l", "e", " ",
    "a", "v", "a", "i", "l", "a", "b", "l", "e", " ", "f", "o", "r", " ",
    "n", "o", "n", "-", "a", "n", "a", "l", "y", "t", "i", "c", "s", " ",
    "q", "u", "e", "r", "i", "e", "s">>

UnknownErrorNotice == "An unknown error occurred while processing your request."

(* what a JSX `cond && <section>` renders: the section or nothing *)
Section(cond, content) == IF cond THEN <<content>> ELSE <<>>

(* variant: summary before error *)
ErrorText_SummaryFirst(data) ==
  IF data.summary # <<>> THEN data.summary
  ELSE IF data.error # <<>> THEN data.error
  ELSE UnknownErrorNotice

(* error || summary || 'An unknown error occurred ...' *)
ErrorText(data) ==
  IF data.error # <<>> THEN data.error
  ELSE IF data.summary # <<>> THEN data.summary
  ELSE UnknownErrorNotice

(* variant: the data table section is outside the success branch *)
DataSummaryResult_TableAlways(data) ==
  [title |-> IF data.success THEN "Query Result" ELSE "Query Error",
   htmlSummary |-> Section(data.success /\ data.html_summary # <<>>,
                           sanitizeHtml(data.html_summary)),
   keyInsights |-> Section(/\ data.success
                           /\ Len(data.key_insights.items) > 0,
                           parseInsights(data.key_insights)),
   dataTable |-> Section(/\ data.markdown_data # <<>>
                         /\ data.markdown_data # NoDataTablePlaceholder,
                         convertMarkdownToTable(data.markdown_data)),
   plainSummary |-> Section(/\ data.success
                            /\ data.html_summary = <<>>
                            /\ data.summary # <<>>,
                            data.summary),
   errorMessage |-> Section(~data.success, ErrorText(data))]

(* the body of the rendered component: header title, the sections of the
   success branch, the error block of the other branch; an absent field and
   an empty string are both <<>> *)
DataSummaryResult(data) ==
  [title |-> IF data.success THEN "Query Result" ELSE "Query Error",
   htmlSummary |-> Section(data.success /\ data.html_summary # <<>>,
                           sanitizeHtml(data.html_summary)),
   keyInsights |-> Section(/\ data.success
                           /\ Len(data.key_insights.items) > 0,
                           parseInsights(data.key_insights)),
   dataTable |-> Section(/\ data.success
                         /\ data.markdown_data # <<>>
                         /\ data.markdown_data # NoDataTablePlaceholder,
                         convertMarkdownToTable(data.markdown_data)),
   plainSummary |-> Section(/\ data.success
                            /\ data.html_summary = <<>>
                            /\ data.summary # <<>>,
                            data.summary),
   errorMessage |-> Section(~data.success, ErrorText(data))]

(* Response envelopes: every combination of present and absent fields *)
SummaryFragments ==
  {<<>>,
   <<Element("p", {Attr("onclick", <<"x">>)}, <<Element("script", {}, <<>>)>>)>>}
InsightLists ==
  {NotAnArray, InsightArray(<<>>),
   InsightArray(<<InsightString(<<"i">>), InsightNumber(7)>>)}
MarkdownTables ==
  {<<>>, NoDataTablePlaceholder,
   Join(<<SegmentText(1), <<"-">>, SegmentText(3)>>, "\n")}
ResponseData ==
  [success : BOOLEAN, html_summary : SummaryFragments,
   key_insights : InsightLists, markdown_data : MarkdownTables,
   error : {<<>>, <<"e">>}, summary : {<<>>, <<"s">>}]

RenderResponse ==
  /\ render.fn = ""
  /\ \E data \in ResponseData :
       render' = Rendered("DataSummaryResult", data, DataSummaryResult(data))
  /\ UNCHANGED protocolVars

(* ---------------------------- specification ---------------------------- *)
(* the manager: its API called by a consumer, and the transport's events *)
NextHook ==
  \/ Tick
  \/ connect
  \/ disconnect
  \/ CallCreateNewSession
  \/ CallSendQuery
  \/ Heartbeat
  \/ EvConnect
  \/ EvConnectError
  \/ EvDisconnect
  \/ EvReconnect
  \/ EvReconnectFailed
  \/ EvConnectionEstablished
  \/ Unmount

(* the controller, with the manager operations that change what the
   controller reads: the held socket, isConnected, the held session id
   and whether the held socket delivers events *)
NextApp ==
  \/ Tick
  \/ connect
  \/ disconnect
  \/ Heartbeat
  \/ EvConnect
  \/ EvDisconnect
  \/ Submit
  \/ ExampleClick
  \/ NewSessionClick
  \/ TimerFire
  \/ EvQueryResponse
  \/ EvQueryError

(* the display functions, each applied to every input of its domain *)
NextRender ==
  \/ RenderTitle
  \/ RenderTable
  \/ RenderSanitized
  \/ RenderResponse

Next == NextHook \/ NextApp \/ NextRender

Spec == Init /\ [][Next]_vars
SpecHook == Init /\ [][NextHook]_vars
SpecApp == Init /\ [][NextApp]_vars
SpecRender == Init /\ [][NextRender]_vars

(* a send is taken only while the message log has room for its user
   message and for the notice or answer that ends the wait *)
SubmitWithRoom ==
  /\ Len(messages) + 1 < MaxMessages
  /\ Submit

ExampleClickWithRoom ==
  /\ Len(messages) + 1 < MaxMessages
  /\ ExampleClick

(* the controller while a query is pending: sends, the connection's
   comings and goings, session resets, answers and the safety timer *)
NextWait ==
  \/ connect
  \/ disconnect
  \/ EvConnect
  \/ EvDisconnect
  \/ SubmitWithRoom
  \/ ExampleClickWithRoom
  \/ NewSessionClick
  \/ TimerFire
  \/ EvQueryResponse
  \/ EvQueryError

(* the firing of the timer with handle h *)
TimerFireOf(h) ==
  /\ h \in timers
  /\ TimerFire
  /\ h \notin timers'

(* setTimeout: a timer that stays armed fires, and clearTimeout ends that
   obligation; no fairness is assumed of the server or of the user *)
SpecWait ==
  /\ Init
  /\ [][NextWait]_vars
  /\ \A h \in TimerIds : WF_vars(TimerFireOf(h))

TypeOK ==
  /\ socket \in {NoSocket, "trying", "open", "closed"}
  /\ orphans \in [LiveStates -> 0..MaxSockets]
  /\ LiveCount <= MaxSockets
  /\ isConnected \in BOOLEAN
  /\ connectionStatus \in {"disconnected", "connecting", "connected",
                           "reconnecting", "error", "failed"}
  /\ reconnectAttempts \in 0..MaxErrors
  /\ isLoading \in BOOLEAN
  /\ loadingTimeoutRef \in TimerIds \cup {NoTimer}
  /\ timers \subseteq TimerIds
  /\ now \in 1..MaxClock
  /\ Len(messages) <= MaxMessages
  /\ answered \in BOOLEAN
  /\ mounted \in BOOLEAN
  /\ render.fn \in {"", "convertSnakeCaseToTitle", "convertMarkdownToTable",
                     "sanitizeHtml", "DataSummaryResult"}

(* ------------------------------- claims -------------------------------- *)
UiSubmits == {"submit", "example"}

(* C1: a submit (typed or example click) issued while loading = true is
   rejected: it appends no user Message, emits no user-query and arms no
   second safety timer. *)
C1_SubmitWhileLoadingRejected ==
  [][(isLoading /\ last'.op \in UiSubmits)
       => /\ messages' = messages
          /\ emitted' = <<>>
          /\ timers' = timers
          /\ loadingTimeoutRef' = loadingTimeoutRef]_vars

(* C2: a PendingQuery (loadingTimeoutRef set, its timer armed) exists if and
   only if loading = true, and at most one safety timer is armed. *)
C2_PendingIffLoading ==
  /\ isLoading <=> loadingTimeoutRef # NoTimer
  /\ timers = IF loadingTimeoutRef = NoTimer THEN {} ELSE {loadingTimeoutRef}
  /\ Cardinality(timers) <= 1

C2_Witness ==
  /\ last.op = "example"
  /\ isLoading
  /\ loadingTimeoutRef = 2
  /\ timers = {2}

UserCalls == {"connect()", "disconnect()"}

(* C3: counting from the counter at 0, a connect_error that brings the
   counter to 1..4 leaves ConnectionState = error and the transport trying;
   the one that brings it to 5 sets ConnectionState = failed and tears that
   transport down; a torn-down transport delivers no further event, and with
   no other transport alive the state stays failed until the user calls
   connect() or disconnect(). *)
C3_FiveConnectErrorsFail ==
  /\ [](last.op = "connect_error"
          => /\ reconnectAttempts >= 1
             /\ reconnectAttempts < maxReconnectAttempts
                  => connectionStatus = "error"
             /\ reconnectAttempts >= maxReconnectAttempts
                  => /\ connectionStatus = "failed"
                     /\ last.sock = "held" => socket = "closed")
  /\ [][last'.op = "connect_error"
          => LiveCount' = IF reconnectAttempts' >= maxReconnectAttempts
                          THEN LiveCount - 1 ELSE LiveCount]_vars
  /\ [][socket = "closed"
          => socket' = "closed" \/ last'.op \in UserCalls]_vars
  /\ [][(connectionStatus = "failed" /\ LiveCount = 0)
          => connectionStatus' = "failed" \/ last'.op \in UserCalls]_vars

C3_Witness ==
  /\ last.op = "connect_error"
  /\ last.sock = "held"
  /\ reconnectAttempts = maxReconnectAttempts
  /\ connectionStatus = "failed"
  /\ socket = "closed"
  /\ LiveCount = 0

(* C4: every transport connect event ends with ConnectionState = connected
   and, in the same step, a session id generated at that moment is held and
   exactly one create_session carrying that same id is emitted on the socket
   that connected. *)
C4_ConnectCreatesSession ==
  last.op = "connect"
    => /\ connectionStatus = "connected"
       /\ isConnected
       /\ currentSessionId # NoSession
       /\ currentSessionId[1] = now
       /\ emitted = <<Emit(last.sock, "create_session", <<>>, currentSessionId)>>

C4_Witness ==
  /\ last.op = "connect"
  /\ connectionStatus = "connected"
  /\ currentSessionId = <<2, "r1">>
  /\ Len(emitted) = 1
  /\ emitted[1].sessionId = <<2, "r1">>

(* C5: a transport disconnect event received while connected ends in
   ConnectionState = disconnected when the reason is 'io client disconnect'
   and in ConnectionState = reconnecting for every other reason; isConnected
   is false afterwards in both cases. *)
C5_DisconnectByReason ==
  [][(connectionStatus = "connected" /\ last'.reason # "")
       => /\ ~isConnected'
          /\ connectionStatus' = IF last'.reason = ClientDisconnect
                                 THEN "disconnected" ELSE "reconnecting"]_vars

C5_Witness ==
  /\ last.op = "disconnect"
  /\ last.reason = TransportClose
  /\ connectionStatus = "reconnecting"
  /\ ~isConnected

(* C6: the reconnect-attempt counter is reset to 0 exactly on entering
   connected: every connect or reconnect event ends connected with the
   counter at 0, every step into connected ends with the counter at 0, and
   no other step decreases the counter. *)
C6_CounterResetOnConnected ==
  [][/\ reconnectAttempts' < reconnectAttempts
          => last'.op \in {"connect", "reconnect"}
     /\ last'.op \in {"connect", "reconnect"}
          => connectionStatus' = "connected" /\ reconnectAttempts' = 0
     /\ (connectionStatus # "connected" /\ connectionStatus' = "connected")
          => reconnectAttempts' = 0]_vars

C6_Witness ==
  /\ last.op = "reconnect"
  /\ connectionStatus = "connected"
  /\ reconnectAttempts = 0
  /\ isConnected
  /\ last.sock = "held"
  /\ socket = "open"

(* C7: disconnect() invoked in any ConnectionState ends with ConnectionState
   = disconnected, no socket held, the transport torn down, isConnected =
   false and the held Session cleared. *)
C7_DisconnectTearsDown ==
  last.op = "disconnect()"
    => /\ connectionStatus = "disconnected"
       /\ ~isConnected
       /\ currentSessionId = NoSession
       /\ socket = NoSocket
       /\ LiveCount = 0

(* C8: once ConnectionState = failed it stays failed in every step that is
   not a connect() or disconnect() call of the user. *)
C8_FailedIsTerminal ==
  [][(connectionStatus = "failed" /\ connectionStatus' # "failed")
       => last'.op \in UserCalls]_vars

(* C9: createNewSession() called with ConnectionState = connected replaces
   the held Session and emits one create_session carrying the new id; called
   in any other ConnectionState it changes nothing and emits nothing; it
   never changes ConnectionState or the reconnect-attempt counter. *)
C9_CreateNewSessionOnlyConnected ==
  [][last'.op = "createNewSession()"
       => /\ connectionStatus' = connectionStatus
          /\ reconnectAttempts' = reconnectAttempts
          /\ IF connectionStatus = "connected"
             THEN /\ currentSessionId' # NoSession
                  /\ currentSessionId'[1] = now
                  /\ Len(emitted') = 1
                  /\ emitted'[1].type = "create_session"
                  /\ emitted'[1].sessionId = currentSessionId'
             ELSE /\ currentSessionId' = currentSessionId
                  /\ emitted' = <<>>]_vars

(* C10: sendQuery(text) fails with NotConnected and emits nothing whenever
   ConnectionState is not connected; when connected it fails with EmptyQuery
   and emits nothing if the trimmed text is empty, and otherwise emits
   exactly one user-query carrying the trimmed text and the held session id
   and resolves; it never changes ConnectionState or the held Session. *)
C10_SendQueryContract ==
  [][last'.op = "sendQuery()"
       => /\ connectionStatus' = connectionStatus
          /\ currentSessionId' = currentSessionId
          /\ connectionStatus # "connected"
               => last'.outcome = "NotConnected" /\ emitted' = <<>>
          /\ connectionStatus = "connected"
               => \/ last'.outcome = "EmptyQuery" /\ emitted' = <<>>
                  \/ /\ last'.outcome = "resolved"
                     /\ Len(emitted') = 1
                     /\ emitted'[1].type = "user-query"
                     /\ emitted'[1].query # <<>>
                     /\ emitted'[1].query = trim(emitted'[1].query)
                     /\ emitted'[1].sessionId = currentSessionId]_vars

(* C11: the heartbeat emits ping only while ConnectionState = connected, and
   a heartbeat tick changes neither ConnectionState, the held Session,
   loading, the safety timer nor the Message sequence. *)
C11_HeartbeatOnlyConnected ==
  [][last'.op = "heartbeat"
       => /\ emitted' # <<>> => connectionStatus = "connected"
          /\ UNCHANGED <<connectionStatus, currentSessionId, isLoading,
                         loadingTimeoutRef, timers, messages>>]_vars

(* C12: a submit (typed or example click) whose text is empty or only
   whitespace, or that is made while ConnectionState is not connected, is a
   no-op: no Message is appended, loading and the safety timer are unchanged
   and no user-query is emitted. *)
C12_BlankOrUnconnectedSubmitNoOp ==
  [][(/\ last'.op \in UiSubmits
      /\ trim(last'.text) = <<>> \/ connectionStatus # "connected")
       => /\ messages' = messages
          /\ isLoading' = isLoading
          /\ timers' = timers
          /\ loadingTimeoutRef' = loadingTimeoutRef
          /\ emitted' = <<>>]_vars

(* C13: a submit of a text that is not blank, made while ConnectionState =
   connected and no query is loading, appends exactly one user Message at the
   end of the sequence, sets loading = true, arms the safety timer and emits
   exactly one user-query whose query is the trimmed text and whose sessionId
   is the held session id. *)
C13_SubmitSendsQuery ==
  [][(/\ last'.op \in UiSubmits
      /\ trim(last'.text) # <<>>
      /\ connectionStatus = "connected"
      /\ ~isLoading)
       => /\ Len(messages') = Len(messages) + 1
          /\ SubSeq(messages', 1, Len(messages)) = messages
          /\ messages'[Len(messages')].type = "user"
          /\ isLoading'
          /\ loadingTimeoutRef' # NoTimer
          /\ timers' = {loadingTimeoutRef'}
          /\ emitted' = <<Emit("held", "user-query", trim(last'.text),
                                currentSessionId)>>]_vars

(* the last Message of the log, or a Message of no type when it is empty *)
LastMessage ==
  IF messages = <<>> THEN Message(0, "", <<>>) ELSE messages[Len(messages)]

(* the step appended exactly one Message at the end of the log *)
AppendedOne ==
  /\ Len(messages') = Len(messages) + 1
  /\ SubSeq(messages', 1, Len(messages)) = messages

(* C14: every inbound query_response, in any controller state, clears the
   safety timer, sets loading = false and appends exactly one assistant
   Message whose content is the received ResponseEnvelope unchanged. *)
C14_ResponseAppendsAssistant ==
  [][last'.op = "query_response"
       => /\ timers' = {}
          /\ loadingTimeoutRef' = NoTimer
          /\ ~isLoading'
          /\ AppendedOne
          /\ LastMessage'.type = "assistant"
          /\ LastMessage'.content = last'.text]_vars

C14_Witness ==
  /\ last.op = "query_response"
  /\ last.text = <<"envFailure">>
  /\ Len(messages) = 2
  /\ messages[1].type = "user"
  /\ messages[2] = Message(now, "assistant", <<"envFailure">>)
  /\ ~isLoading
  /\ timers = {}

(* C15: every inbound query_error clears the safety timer, sets loading =
   false and appends exactly one error Message whose content is the error
   text of the envelope when present and the default message otherwise;
   ConnectionState is unchanged. *)
C15_QueryErrorAppendsError ==
  [][last'.op = "query_error"
       => /\ timers' = {}
          /\ loadingTimeoutRef' = NoTimer
          /\ ~isLoading'
          /\ AppendedOne
          /\ LastMessage'.type = "error"
          /\ LastMessage'.content = IF last'.text = <<"">>
                                    THEN <<DefaultQueryError>> ELSE last'.text
          /\ connectionStatus' = connectionStatus]_vars

C15_Witness ==
  /\ last.op = "query_error"
  /\ last.text = <<"boom">>
  /\ Len(messages) = 2
  /\ messages[1].type = "user"
  /\ messages[2] = Message(now, "error", <<"boom">>)
  /\ ~isLoading
  /\ timers = {}

(* C16: the expiry of the safety timer sets loading = false, disarms the
   timer, appends exactly one error Message with the timeout notice and
   leaves ConnectionState and the held Session unchanged; a typed submit of a
   text that is not blank, made right after it while isConnected, is
   accepted. *)
C16_TimeoutRecovers ==
  /\ [][last'.op = "timeout"
          => /\ ~isLoading'
             /\ loadingTimeoutRef' = NoTimer
             /\ timers' = {}
             /\ AppendedOne
             /\ LastMessage'.type = "error"
             /\ LastMessage'.content = <<TimeoutNotice>>
             /\ connectionStatus' = connectionStatus
             /\ currentSessionId' = currentSessionId]_vars
  /\ [][(/\ last.op = "timeout"
         /\ last'.op = "submit"
         /\ isConnected
         /\ trim(last'.text) # <<>>)
          => /\ Len(messages') > Len(messages)
             /\ messages'[Len(messages) + 1].type = "user"]_vars

C16_Witness ==
  /\ last.op = "timeout"
  /\ Len(messages) = 2
  /\ messages[1].type = "user"
  /\ messages[2].content = <<TimeoutNotice>>
  /\ ~isLoading
  /\ loadingTimeoutRef = NoTimer
  /\ timers = {}
  /\ connectionStatus = "connected"

(* C17: a query_response that arrives after the safety timer of its query
   has expired (the log ends with the timeout notice, nothing is loading) is
   not dropped: it appends an assistant Message after the timeout error
   Message and loading stays false. *)
C17_LateResponseAppended ==
  [][(/\ last'.op = "query_response"
      /\ LastMessage.content = <<TimeoutNotice>>
      /\ ~isLoading)
       => /\ messages' = Append(messages, Message(now, "assistant", last'.text))
          /\ ~isLoading']_vars

C17_Witness ==
  /\ last.op = "query_response"
  /\ Len(messages) = 2
  /\ messages[1].content = <<TimeoutNotice>>
  /\ messages[2].type = "assistant"
  /\ ~isLoading

(* C18: a timeout Message is appended only if no query_response and no
   query_error was handled since the most recent message was sent, however
   many heartbeat ticks fire in between; an answered query leaves no safety
   timer armed. *)
C18_NoTimeoutAfterAnswer ==
  /\ [][last'.op = "timeout" => ~answered]_vars
  /\ [](answered => timers = {})

C18_Witness ==
  /\ last.op = "heartbeat"
  /\ answered
  /\ ~isLoading
  /\ timers = {}
  /\ Len(messages) = 2
  /\ messages[2].type = "assistant"

(* C19: a new-session click made while ConnectionState = connected replaces
   the held Session by an id generated at that moment, emits one
   create_session carrying that id, leaves the Message sequence empty and
   leaves ConnectionState unchanged. *)
C19_NewSessionResets ==
  [][(last'.op = "newSession" /\ connectionStatus = "connected")
       => /\ currentSessionId' # NoSession
          /\ currentSessionId'[1] = now
          /\ emitted' = <<Emit("held", "create_session", <<>>,
                                currentSessionId')>>
          /\ messages' = <<>>
          /\ connectionStatus' = connectionStatus]_vars

(* C20: every step other than a new-session click leaves the Message
   sequence unchanged or appends exactly one Message at its end. *)
C20_AppendOnly ==
  [][last'.op # "newSession" => messages' = messages \/ AppendedOne]_vars

(* C21: in every reachable state the Messages of the sequence have pairwise
   distinct ids. *)
C21_MessageIdsUnique ==
  \A i, j \in 1..Len(messages) : i # j => messages[i].id # messages[j].id

(* C22: when the sendQuery call made by an accepted submit fails (no socket
   is held), the step leaves no safety timer armed, ends with loading =
   false and appends the user Message followed by exactly one error Message
   with the send-failure notice; a safety timer is armed only by a submit, so
   no timeout Message follows for that submit. *)
C22_SendFailureHandled ==
  /\ [][(/\ last'.op \in UiSubmits
         /\ isConnected
         /\ trim(last'.text) # <<>>
         /\ last'.op = "submit" => ~isLoading
         /\ socket = NoSocket)
          => /\ timers' = {}
             /\ loadingTimeoutRef' = NoTimer
             /\ ~isLoading'
             /\ Len(messages') = Len(messages) + 2
             /\ SubSeq(messages', 1, Len(messages)) = messages
             /\ messages'[Len(messages) + 1].type = "user"
             /\ messages'[Len(messages) + 2].type = "error"
             /\ messages'[Len(messages) + 2].content = <<SendFailedNotice>>
             /\ emitted' = <<>>]_vars
  /\ [][timers' \subseteq timers \/ last'.op \in UiSubmits]_vars

C22_Witness ==
  /\ last.op = "submit"
  /\ socket = NoSocket
  /\ isConnected
  /\ Len(messages) = 2
  /\ messages[1].type = "user"
  /\ messages[2] = Message(now + 1, "error", <<SendFailedNotice>>)
  /\ ~isLoading
  /\ timers = {}

(* C23 (its disconnect() and session-reset cases): right after a disconnect()
   call and right after a new-session click no safety timer is armed, and
   after disconnect() the heartbeat interval, which exists exactly while
   isConnected, is gone as well. *)
C23_TimersCancelledOnExit ==
  /\ last.op \in {"disconnect()", "newSession"} => timers = {}
  /\ last.op = "disconnect()" => ~isConnected

(* a query_response, query_error or safety timeout of a query that was
   submitted before a reset and is still waiting (loading) right after it
   appends nothing to the new conversation *)
OldAnswerNotAppended ==
  [][(/\ last.op = "newSession"
      /\ isLoading
      /\ last'.op \in {"query_response", "query_error", "timeout"})
       => messages' = messages]_vars

(* C30: a new-session click that resets the conversation leaves loading
   false and no safety timer armed, and no response, failure or timeout of a
   query submitted before the reset is appended to the new conversation. *)
C30_NoLeakAcrossReset ==
  /\ [][(last'.op = "newSession" /\ isConnected)
          => /\ ~isLoading'
             /\ timers' = {}
             /\ loadingTimeoutRef' = NoTimer]_vars
  /\ OldAnswerNotAppended

(* the words of a snake_case string, read off its positions: a word starts
   at every character other than "_" that is first or follows a "_", and
   runs up to the next "_" *)
WordStarts(x) ==
  {i \in 1..Len(x) : x[i] # "_" /\ (i = 1 \/ x[i - 1] = "_")}

WordAt(x, i) ==
  LET stop == {k \in i..Len(x) : x[k] = "_"}
      end == IF stop = {} THEN Len(x)
             ELSE (CHOOSE k \in stop : \A m \in stop : k <= m) - 1
  IN SubSeq(x, i, end)

RECURSIVE TitleFrom(_, _)
TitleFrom(x, starts) ==
  IF starts = {} THEN <<>>
  ELSE LET i == CHOOSE k \in starts : \A m \in starts : k <= m
           w == WordAt(x, i)
           titled == <<ToUpperCase(w[1])>> \o
                     [k \in 1..(Len(w) - 1) |-> ToLowerCase(w[k + 1])]
       IN IF starts = {i} THEN titled
          ELSE titled \o <<" ">> \o TitleFrom(x, starts \ {i})

(* C29: convertSnakeCaseToTitle returns a string without "_" (the empty
   string included) unchanged; otherwise it returns the non-empty
   "_"-separated segments, each with its first character in upper case and
   the rest in lower case, joined by single spaces, with no leading, trailing
   or doubled space. *)
C29_SnakeToTitle ==
  render.fn = "convertSnakeCaseToTitle"
    => LET x == render.arg
           y == render.out
       IN /\ ~Includes(x, "_") => y = x
          /\ Includes(x, "_")
               => /\ y = TitleFrom(x, WordStarts(x))
                  /\ y # <<>> => y[1] # " " /\ y[Len(y)] # " "
                  /\ \A i \in 1..(Len(y) - 1) : ~(y[i] = " " /\ y[i + 1] = " ")
                  /\ ~Includes(y, "_")

C29_Witness ==
  /\ render.fn = "convertSnakeCaseToTitle"
  /\ render.arg = <<"a", "_", "_", "B">>
  /\ render.out = <<"A", " ", "B">>

(* the index, in increasing order, of the r-th element of a set of numbers *)
NthOf(S, r) == CHOOSE k \in S : Cardinality({m \in S : m < k}) = r - 1

(* C24: whenever convertMarkdownToTable yields a table, it has h >= 1
   header columns, it has one row per data line (third line on) with at
   least one non-blank pipe segment, in order, and every row has exactly h
   cells: cell i is the escaped i-th non-blank trimmed segment of its line
   when the line has one, and empty otherwise; segments beyond h are
   dropped. *)
C24_RowWidth ==
  (render.fn = "convertMarkdownToTable" /\ render.out.kind = "table")
    => LET lines == Split(trim(render.arg), "\n")
           h == Len(render.out.headers)
           rows == render.out.rows
           shown == {k \in 3..Len(lines) : PipeSegments(lines[k]) # <<>>}
       IN /\ h >= 1
          /\ Len(rows) = Cardinality(shown)
          /\ \A r \in 1..Len(rows) :
               LET segs == PipeSegments(lines[NthOf(shown, r)])
               IN /\ Len(rows[r].cells) = h
                  /\ \A i \in 1..h :
                       rows[r].cells[i] =
                         IF i <= Len(segs) THEN escapeHtml(segs[i]) ELSE <<>>

(* a 2-column header and a data line of 3 segments: 2 cells are shown *)
C24_Witness ==
  /\ render.fn = "convertMarkdownToTable"
  /\ render.arg = Join(<<Join(<<SegmentText(1), SegmentText(2)>>, "|"),
                         <<"-", "|", "-">>,
                         Join(<<SegmentText(1), SegmentText(2), SegmentText(3)>>, "|")>>,
                       "\n")
  /\ render.out.kind = "table"
  /\ render.out.headers = <<<<"A", " ", "B">>, <<"&", "l", "t", ";">>>>
  /\ Len(render.out.rows) = 1
  /\ render.out.rows[1].cells = <<<<"a", "_", "b">>, <<"&", "l", "t", ";">>>>

(* C25 as stated: every input without a line feed, the empty string
   included, is rendered as the <pre> fallback holding the escaped input. *)
C25_FewLinesFallback ==
  (render.fn = "convertMarkdownToTable" /\ ~Includes(render.arg, "\n"))
    => render.out = RawFallback(render.arg)

(* C25 amended: every non-empty input without a line feed is rendered as the
   <pre> fallback holding the escaped input, never as a table; the empty
   string is rendered as the "No table data available" paragraph. *)
C25_NonEmptyFewLinesFallback ==
  (render.fn = "convertMarkdownToTable" /\ ~Includes(render.arg, "\n"))
    => IF render.arg = <<>> THEN render.out.kind = "nodata"
       ELSE /\ render.out.kind = "pre"
            /\ render.out.text = escapeHtml(render.arg)

(* a single line with a header-like content and a character to escape *)
C25_Witness ==
  /\ render.fn = "convertMarkdownToTable"
  /\ render.arg = <<" ", "a", "_", "b", "|", "<", " ">>
  /\ render.out.kind = "pre"
  /\ render.out.text = <<" ", "a", "_", "b", "|", "&", "l", "t", ";", " ">>

(* every element of a fragment, at any depth *)
RECURSIVE AllElements(_)
AllElements(nodes) ==
  UNION {{nodes[i]} \cup AllElements(nodes[i].children) : i \in 1..Len(nodes)}

(* the elements of a fragment that are not inside (or themselves) an element
   with a listed tag, in document order with their depth, each with the
   attributes the policy lets through *)
RECURSIVE KeptOutline(_, _)
KeptOutline(nodes, depth) ==
  IF nodes = <<>> THEN <<>>
  ELSE LET el == Head(nodes)
           allowed == {a \in el.attrs :
                         /\ a.name \notin dangerousAttributes
                         /\ a.name \in {"href", "src"}
                              => ~startsWith(a.value, JavascriptPrefix)}
       IN (IF el.tag \in dangerousElements THEN <<>>
           ELSE <<<<depth, el.tag, allowed>>>>
                \o KeptOutline(el.children, depth + 1))
          \o KeptOutline(Tail(nodes), depth)

(* the elements of a fragment in document order with their depth *)
RECURSIVE Outline(_, _)
Outline(nodes, depth) ==
  IF nodes = <<>> THEN <<>>
  ELSE <<<<depth, Head(nodes).tag, Head(nodes).attrs>>>>
       \o Outline(Head(nodes).children, depth + 1)
       \o Outline(Tail(nodes), depth)

(* C26: the output of sanitizeHtml has no element with a listed tag at any
   depth, no listed event-handler attribute and no href or src whose value
   starts with "javascript:" on any element; every other element, with its
   place in the tree, and every other attribute is kept as it was. *)
C26_SanitizerPolicy ==
  render.fn = "sanitizeHtml"
    => /\ \A el \in AllElements(render.out) :
            /\ el.tag \notin dangerousElements
            /\ \A a \in el.attrs :
                 /\ a.name \notin dangerousAttributes
                 /\ ~(a.name \in {"href", "src"}
                        /\ startsWith(a.value, JavascriptPrefix))
       /\ Outline(render.out, 0) = KeptOutline(render.arg, 0)

(* <p on...="x" class="c"><script ...></script><p onclick href="/"></p></p> *)
C26_Witness ==
  /\ render.fn = "sanitizeHtml"
  /\ \E el \in AllElements(render.arg) : el.tag = "script"
  /\ \E el \in AllElements(render.arg) :
       \E a \in el.attrs : a.name = "src" /\ startsWith(a.value, JavascriptPrefix)
  /\ render.out =
       <<Element("p", {Attr("class", <<"c">>)},
                 <<Element("p", {Attr("href", <<"/">>)}, <<>>)>>)>>

(* C27 as stated: the summary block is rendered whenever html_summary is
   present, the insights list whenever insights are present and the data
   table whenever markdown_data is present, whatever the value of success. *)
C27_SectionsWhateverSuccess ==
  render.fn = "DataSummaryResult"
    => LET data == render.arg
           shown == render.out
       IN /\ data.html_summary # <<>> => shown.htmlSummary # <<>>
          /\ (data.key_insights.isArray /\ data.key_insights.items # <<>>)
               => shown.keyInsights # <<>>
          /\ data.markdown_data # <<>> => shown.dataTable # <<>>

(* C27 amended: when success is true the sanitized summary block is rendered
   exactly when html_summary is non-empty, the insights list exactly when
   key_insights is a non-empty list, and the data table exactly when
   markdown_data is non-empty and is not the "No data table available for
   non-analytics queries" text, each whatever the other fields are; when
   success is false none of the three is rendered. *)
C27_SectionsWhenSuccess ==
  render.fn = "DataSummaryResult"
    => LET data == render.arg
           shown == render.out
       IN /\ shown.htmlSummary # <<>>
               <=> (data.success /\ data.html_summary # <<>>)
          /\ shown.htmlSummary # <<>>
               => shown.htmlSummary[1] = sanitizeHtml(data.html_summary)
          /\ shown.keyInsights # <<>>
               <=> /\ data.success
                   /\ data.key_insights.isArray
                   /\ data.key_insights.items # <<>>
          /\ shown.keyInsights # <<>>
               => /\ Len(shown.keyInsights[1]) = Len(data.key_insights.items)
                  /\ \A i \in 1..Len(shown.keyInsights[1]) :
                       shown.keyInsights[1][i].id = i - 1
          /\ shown.dataTable # <<>>
               <=> /\ data.success
                   /\ data.markdown_data # <<>>
                   /\ data.markdown_data # NoDataTablePlaceholder
          /\ shown.dataTable # <<>>
               => shown.dataTable[1] = convertMarkdownToTable(data.markdown_data)

(* success, a table and insights but no html_summary: two of the three *)
C27_Witness ==
  /\ render.fn = "DataSummaryResult"
  /\ render.arg.success
  /\ render.arg.html_summary = <<>>
  /\ render.out.htmlSummary = <<>>
  /\ render.out.keyInsights =
       <<<<[id |-> 0, text |-> <<"i">>], [id |-> 1, text |-> <<"7">>]>>>>
  /\ render.out.dataTable # <<>>
  /\ render.out.dataTable[1].kind = "table"

(* C28: the error block is rendered if and only if success is false; its
   text is error when non-empty, otherwise summary when non-empty, otherwise
   the unknown-error notice. *)
C28_ErrorBlock ==
  render.fn = "DataSummaryResult"
    => LET data == render.arg
           shown == render.out.errorMessage
       IN /\ shown # <<>> <=> ~data.success
          /\ shown # <<>>
               => /\ data.error # <<>> => shown[1] = data.error
                  /\ (data.error = <<>> /\ data.summary # <<>>)
                       => shown[1] = data.summary
                  /\ (data.error = <<>> /\ data.summary = <<>>)
                       => shown[1] = UnknownErrorNotice

(* a failed envelope with both error and summary shows the error *)
C28_Witness ==
  /\ render.fn = "DataSummaryResult"
  /\ ~render.arg.success
  /\ render.arg.error = <<"e">>
  /\ render.arg.summary = <<"s">>
  /\ render.out.errorMessage = <<<<"e">>>>

(* C38: for an input whose trimmed text has at least 2 lines, a header line
   (line 0) without a non-blank pipe segment gives the <pre> fallback holding
   the escaped input; otherwise the output is a table whose rows are exactly
   the lines at index >= 2 with at least one non-blank trimmed pipe segment,
   in input order, line 1 never being shown: row r starts with the first
   segment of the r-th such line and carries the striping of that line's
   position. *)
C38_RowSelection ==
  (render.fn = "convertMarkdownToTable"
     /\ Len(Split(trim(render.arg), "\n")) >= 2)
    => LET lines == Split(trim(render.arg), "\n")
           shown == {k \in 3..Len(lines) : PipeSegments(lines[k]) # <<>>}
           rows == render.out.rows
       IN IF PipeSegments(lines[1]) = <<>>
          THEN /\ render.out.kind = "pre"
               /\ render.out.text = escapeHtml(render.arg)
          ELSE /\ render.out.kind = "table"
               /\ Len(rows) = Cardinality(shown)
               /\ \A r \in 1..Len(rows) :
                    LET k == NthOf(shown, r)
                    IN /\ rows[r].cells[1] = escapeHtml(PipeSegments(lines[k])[1])
                       /\ rows[r].class = IF (k - 3) % 2 = 0
                                          THEN "bg-white" ELSE "bg-gray-50"

(* header, a second line that reads like data, a blank data line: a table
   without rows *)
C38_Witness ==
  /\ render.fn = "convertMarkdownToTable"
  /\ render.arg = Join(<<SegmentText(1), SegmentText(1),
                         Join(<<BlankSegment, BlankSegment>>, "|")>>, "\n")
  /\ render.out.kind = "table"
  /\ render.out.rows = <<>>

(* C39: convertSnakeCaseToTitle applied to its own result returns that
   result, and the result of a string that contains "_" contains none. *)
C39_SnakeToTitleIdempotent ==
  render.fn = "convertSnakeCaseToTitle"
    => /\ convertSnakeCaseToTitle(render.out) = render.out
       /\ Includes(render.arg, "_") => ~Includes(render.out, "_")

C39_Witness ==
  /\ render.fn = "convertSnakeCaseToTitle"
  /\ render.arg = <<"_", "a", "B", "_">>
  /\ render.out = <<"A", "b">>
  /\ convertSnakeCaseToTitle(render.out) = <<"A", "b">>

(* C33: in every reachable state isConnected is true if and only if
   connectionStatus is "connected". *)
C33_IndicatorsAgree ==
  isConnected <=> connectionStatus = "connected"

(* C35: at most one socket with registered handlers is live (trying or
   open) at any time, and connect() is called only when none is. *)
C35_AtMostOneLiveTransport ==
  /\ [](LiveCount <= 1)
  /\ [][last'.op = "connect()" => LiveCount = 0]_vars

(* the create_session and user-query events of a step carry the session id
   held after it *)
EmittedCarryHeldSession ==
  \A i \in 1..Len(emitted') :
    emitted'[i].type \in {"create_session", "user-query"}
      => emitted'[i].sessionId = currentSessionId'

ClearedByDisconnect ==
  last'.op = "disconnect()" /\ currentSessionId' = NoSession

ReplacedByCreateSession ==
  \E i \in 1..Len(emitted') :
    /\ emitted'[i].type = "create_session"
    /\ emitted'[i].sessionId = currentSessionId'

(* C32 as stated: the held session id changes only in a step that emits a
   create_session carrying the new id (or in disconnect(), which clears it),
   so it is always the id of the last create_session; every create_session
   and user-query carries the held id. *)
C32_SessionReplacedOnlyByClient ==
  [][/\ currentSessionId' # currentSessionId
          => ClearedByDisconnect \/ ReplacedByCreateSession
     /\ EmittedCarryHeldSession]_vars

(* C32 amended: the held session id changes only in a step that emits a
   create_session carrying the new id, in disconnect(), which clears it, or
   on a connection_established event that carries a session id, which
   becomes the held id; every create_session and user-query carries the held
   id. *)
C32_SessionReplacedByClientOrServer ==
  [][/\ currentSessionId' # currentSessionId
          => \/ ClearedByDisconnect
             \/ ReplacedByCreateSession
             \/ /\ last'.op = "connection_established"
                /\ currentSessionId' \in ServerSessions \ {NoSession}
     /\ EmittedCarryHeldSession]_vars

(* a user-query that carries the id adopted from connection_established *)
C32_Witness ==
  /\ last.op = "sendQuery()"
  /\ last.outcome = "resolved"
  /\ currentSessionId \in ServerSessions \ {NoSession}
  /\ emitted[1].sessionId = currentSessionId

(* C34: whenever isConnected is true a Session is held, and every emitted
   user-query carries a session id. *)
C34_ConnectedHoldsSession ==
  /\ isConnected => currentSessionId # NoSession
  /\ \A i \in 1..Len(emitted) :
       emitted[i].type = "user-query" => emitted[i].sessionId # NoSession

(* C37: after a connect() call made once the retry budget was used up
   (ConnectionState failed, the counter at its cap, no live transport) the
   new socket has a full budget again: its first connect_error does not
   bring ConnectionState back to failed. *)
C37_ReconnectFullBudget ==
  [][(/\ last.op = "connect()"
      /\ LiveCount = 1
      /\ reconnectAttempts >= maxReconnectAttempts
      /\ last'.op = "connect_error"
      /\ last'.sock = "held")
       => connectionStatus' # "failed"]_vars

(* C36: once the component is unmounted no socket is live (none can deliver
   an event) and no Session is held. *)
C36_UnmountTearsDown ==
  ~mounted => /\ LiveCount = 0
              /\ socket \notin LiveStates
              /\ currentSessionId = NoSession

(* C31: whenever loading is true it later becomes false, given only that
   an armed safety timer fires: no answer need arrive, the connection may
   drop or be torn down, and a new session may be started meanwhile *)
C31_LoadingEventuallyFalse == isLoading ~> ~isLoading

====
